---------------------------- MODULE Spec2Model ----------------------------
(***************************************************************************)
(* A model of peppolling/peppol_bookkeeping.py: the UBL invoice generator, *)
(* the extractor with its lookup-or-create of parties, and the two         *)
(* Peppyrus transport calls.                                               *)
(*                                                                         *)
(* Representation.                                                         *)
(*  - A Python str is a sequence of one-character strings; a piece of     *)
(*    text the code only copies (a name, a fixed literal) may be held as   *)
(*    one longer token.  Python's None is the reserved one-token sequence  *)
(*    <<"None">>, which no text of the model equals.                       *)
(*  - A Decimal is [neg, c, e]: sign, coefficient and the number of        *)
(*    fractional digits, the triple Python's decimal module keeps, so that *)
(*    0.21 and 0.210 (and 0 and -0) are different representations of       *)
(*    equal numbers.  A float is held as the exact decimal it was parsed   *)
(*    from.                                                                *)
(*  - An XML element is [tag, attrs, text, kids]; a tag carries its prefix *)
(*    ("cbc:ID"), the prefix standing for the namespace it is bound to.    *)
(*  - A byte string holding a document is [wf, root]: whether it is        *)
(*    well-formed and the element tree a parser reads from it.             *)
(***************************************************************************)
EXTENDS Integers, Sequences, FiniteSets, TLC

VARIABLES users, transactions, invoices, needsRollback, generated, call

vars == <<users, transactions, invoices, needsRollback, generated, call>>

(***************************************************************************)
(* Bounds of the model.                                                    *)
(***************************************************************************)
MaxItems == 2
MaxMsgs == 2
MaxInvoices == 2

(***************************************************************************)
(* Python values                                                           *)
(***************************************************************************)
None == <<"None">>

Falsy(v) == v = None \/ v = <<>>

OrElse(v, d) == IF Falsy(v) THEN d ELSE v

Digits == <<"0", "1", "2", "3", "4", "5", "6", "7", "8", "9">>

IsDigit(ch) == \E i \in 1..10 : Digits[i] = ch

DigitVal(ch) == (CHOOSE i \in 1..10 : Digits[i] = ch) - 1

RECURSIVE DigitsVal(_)
DigitsVal(ds) ==
  IF ds = <<>> THEN 0
  ELSE DigitsVal(SubSeq(ds, 1, Len(ds) - 1)) * 10 + DigitVal(ds[Len(ds)])

RECURSIVE NatStr(_)
NatStr(n) == IF n < 10 THEN <<Digits[n + 1]>>
             ELSE NatStr(n \div 10) \o <<Digits[(n % 10) + 1]>>

RECURSIVE Pow10(_)
Pow10(n) == IF n = 0 THEN 1 ELSE 10 * Pow10(n - 1)

RECURSIVE PadLeft(_, _)
PadLeft(s, n) == IF Len(s) >= n THEN s ELSE PadLeft(<<"0">> \o s, n)

(***************************************************************************)
(* Decimal(str) and float(str): an optional "-", digits with at most one   *)
(* ".", at least one digit.  Anything else is refused (ok = FALSE), which  *)
(* is decimal.InvalidOperation for Decimal and ValueError for float.       *)
(***************************************************************************)
ParseNum(s) ==
  LET neg  == Len(s) > 0 /\ s[1] = "-"
      body == IF neg THEN Tail(s) ELSE s
      dots == {i \in 1..Len(body) : body[i] = "."}
      digs == SelectSeq(body, IsDigit)
      ok   == /\ \A i \in 1..Len(body) : IsDigit(body[i]) \/ body[i] = "."
              /\ Cardinality(dots) <= 1
              /\ Len(digs) >= 1
  IN IF ok
     THEN [ok |-> TRUE,
           d  |-> [neg |-> neg, c |-> DigitsVal(digs),
                   e |-> IF dots = {} THEN 0
                         ELSE Len(body) - (CHOOSE i \in dots : TRUE)]]
     ELSE [ok |-> FALSE, d |-> [neg |-> FALSE, c |-> 0, e |-> 0]]

Dec(neg, c, e) == [neg |-> neg, c |-> c, e |-> e]

\* The number a Decimal stands for, as an integer at scale 10^-e.
Signed(d) == IF d.neg THEN 0 - d.c ELSE d.c

AtScale(d, e) == Signed(d) * Pow10(e - d.e)

MaxE(a, b) == IF a.e >= b.e THEN a.e ELSE b.e

Abs(n) == IF n < 0 THEN 0 - n ELSE n

\* Decimal.__eq__ (and __hash__): by numeric value, not by representation.
DecEq(a, b) == AtScale(a, MaxE(a, b)) = AtScale(b, MaxE(a, b))

DecLt(a, b) == AtScale(a, MaxE(a, b)) < AtScale(b, MaxE(a, b))

\* Decimal.__add__: the exponent is the smaller one; a zero sum is -0 only
\* when both operands are negative.
DecAdd(a, b) ==
  LET e == MaxE(a, b)
      n == AtScale(a, e) + AtScale(b, e)
  IN Dec(IF n = 0 THEN a.neg /\ b.neg ELSE n < 0, Abs(n), e)

\* Decimal.__mul__: signs xor, coefficients multiply, exponents add.
DecMul(a, b) == Dec(a.neg # b.neg, a.c * b.c, a.e + b.e)

\* value.quantize(Decimal("0.01"), rounding=ROUND_HALF_EVEN)
QuantizeHalfEven(d) ==
  IF d.e <= 2 THEN Dec(d.neg, d.c * Pow10(2 - d.e), 2)
  ELSE LET p == Pow10(d.e - 2)
           q == d.c \div p
           r == d.c % p
       IN Dec(d.neg, IF 2 * r > p \/ (2 * r = p /\ q % 2 = 1) THEN q + 1 ELSE q, 2)

\* value.quantize(Decimal("0.01"), rounding=ROUND_HALF_UP): the sign is kept
\* and the magnitude rounds to the nearest cent, a half going up.
Quantize(d) ==
  IF d.e <= 2 THEN Dec(d.neg, d.c * Pow10(2 - d.e), 2)
  ELSE LET p == Pow10(d.e - 2)
           q == d.c \div p
           r == d.c % p
       IN Dec(d.neg, IF 2 * r >= p THEN q + 1 ELSE q, 2)

\* str(Decimal): sign, integer digits, and e fractional digits after a ".".
DecStr(d) ==
  (IF d.neg THEN <<"-">> ELSE <<>>)
  \o NatStr(d.c \div Pow10(d.e))
  \o (IF d.e = 0 THEN <<>> ELSE <<".">> \o PadLeft(NatStr(d.c % Pow10(d.e)), d.e))

\* _d0: Decimal(str(value)); a value is held as its str() text.
d0(value) == ParseNum(value)

\* _d2: Decimal(str(value)).quantize(0.01, ROUND_HALF_UP)
d2(value) ==
  LET p == ParseNum(value)
  IN [ok |-> p.ok, d |-> Quantize(p.d)]

\* _fmt_amount
fmt_amount(value) == DecStr(Quantize(value))

\* _safe_str
safe_str(val) == IF val = None THEN <<>> ELSE val

(***************************************************************************)
(* datetime.date: [y, m, d].  str(date) is the ISO text YYYY-MM-DD.        *)
(***************************************************************************)
IsLeap(y) == (y % 4 = 0 /\ y % 100 # 0) \/ y % 400 = 0

DaysIn(y, m) ==
  IF m = 2 THEN (IF IsLeap(y) THEN 29 ELSE 28)
  ELSE IF m \in {4, 6, 9, 11} THEN 30 ELSE 31

NextDay(t) ==
  IF t.d < DaysIn(t.y, t.m) THEN [t EXCEPT !.d = t.d + 1]
  ELSE IF t.m < 12 THEN [y |-> t.y, m |-> t.m + 1, d |-> 1]
  ELSE [y |-> t.y + 1, m |-> 1, d |-> 1]

\* date + timedelta(days=n)
RECURSIVE AddDays(_, _)
AddDays(t, n) == IF n = 0 THEN t ELSE AddDays(NextDay(t), n - 1)

DateStr(t) ==
  PadLeft(NatStr(t.y), 4) \o <<"-">> \o PadLeft(NatStr(t.m), 2)
  \o <<"-">> \o PadLeft(NatStr(t.d), 2)

\* datetime.fromisoformat on a text of digits and "-": YYYY-MM-DD with a
\* real month and day, anything else is a ValueError.
IsIsoDate(s) ==
  /\ Len(s) = 10
  /\ s[5] = "-" /\ s[8] = "-"
  /\ \A i \in {1, 2, 3, 4, 6, 7, 9, 10} : IsDigit(s[i])
  /\ LET y == DigitsVal(SubSeq(s, 1, 4))
         m == DigitsVal(SubSeq(s, 6, 7))
         d == DigitsVal(SubSeq(s, 9, 10))
     IN y >= 1 /\ m \in 1..12 /\ d >= 1 /\ d <= DaysIn(y, m)

(***************************************************************************)
(* lxml elements                                                           *)
(***************************************************************************)
\* etree.SubElement(parent, tag, **attrs) with .text and its children.  A
\* text of None and a text of "" are the same empty element.
E(tag, attrs, text, kids) ==
  [tag |-> tag, attrs |-> attrs, text |-> safe_str(text), kids |-> kids]

Leaf(tag, text) == E(tag, <<>>, text, <<>>)

Amount(tag, text) == E(tag, <<<<"currencyID", <<"EUR">>>>>>, text, <<>>)

Node(tag, kids) == E(tag, <<>>, <<>>, kids)

\* peppol_id.split(":")[0]
Scheme(s) ==
  IF \E i \in 1..Len(s) : s[i] = ":"
  THEN SubSeq(s, 1, (CHOOSE i \in 1..Len(s) :
                        s[i] = ":" /\ \A j \in 1..(i - 1) : s[j] # ":") - 1)
  ELSE s

\* dict.get(key, default)
Get(item, key, default) == IF key \in DOMAIN item THEN item[key] ELSE default

(***************************************************************************)
(* generate_invoice_xml                                                    *)
(***************************************************************************)
Zero == Dec(FALSE, 0, 0)

Zero2 == Dec(FALSE, 0, 2)

Hundred == Dec(FALSE, 100, 0)

\* quantity = d0(...); unit_price = d2(...); line_total = d2(quantity *
\* unit_price): the same three lines open both loops over the items.
Line(item) ==
  LET q == d0(Get(item, "quantity", <<"0">>))
      u == d2(Get(item, "unit_price", <<"0">>))
  IN [ok |-> q.ok /\ u.ok, quantity |-> q.d, unit_price |-> u.d,
      line_total |-> Quantize(DecMul(q.d, u.d))]

\* vat_pct = Decimal(str(item.get("vat_pct", 0))), a negative one set to 0.
VatPctUnclamped(item) ==
  LET v == ParseNum(Get(item, "vat_pct", <<"0">>))
  IN [ok |-> v.ok, d |-> v.d]

VatPct(item) ==
  LET v == ParseNum(Get(item, "vat_pct", <<"0">>))
  IN [ok |-> v.ok, d |-> IF DecLt(v.d, Zero) THEN Zero ELSE v.d]

\* The place of key k in the dict (0: not a key).  A dict finds a key by
\* hash and ==, which for Decimal go by numeric value.
KeyIndexByRepr(groups, k) ==
  IF \E i \in 1..Len(groups) : groups[i].key = k
  THEN CHOOSE i \in 1..Len(groups) : groups[i].key = k
  ELSE 0

KeyIndex(groups, k) ==
  IF \E i \in 1..Len(groups) : DecEq(groups[i].key, k)
  THEN CHOOSE i \in 1..Len(groups) : DecEq(groups[i].key, k)
  ELSE 0

\* vat_groups[k]: the defaultdict makes a missing key with 0.00 and 0.00,
\* at the end of the dict's insertion order.
Touch(groups, k) ==
  IF KeyIndex(groups, k) = 0
  THEN Append(groups, [key |-> k, taxable |-> Zero2, tax |-> Zero2])
  ELSE groups

\* One pass of the first loop over the items.
AddItem(acc, item) ==
  LET ln         == Line(item)
      vp         == VatPct(item)
      vat_amount == DecMul(ln.line_total, vp.d)
      g          == Touch(acc.vat_groups, vp.d)
      i          == KeyIndex(g, vp.d)
  IN IF ~(ln.ok /\ vp.ok)
     THEN [acc EXCEPT !.ok = FALSE]
     ELSE [ok |-> TRUE,
           vat_groups |->
             [g EXCEPT ![i] = [key     |-> g[i].key,
                               taxable |-> DecAdd(g[i].taxable, ln.line_total),
                               tax     |-> DecAdd(g[i].tax, vat_amount)]],
           total_without_tax |-> DecAdd(acc.total_without_tax, ln.line_total),
           total_tax |-> DecAdd(acc.total_tax, vat_amount)]

RECURSIVE Accumulate(_, _)
Accumulate(acc, items) ==
  IF items = <<>> \/ ~acc.ok THEN acc
  ELSE Accumulate(AddItem(acc, Head(items)), Tail(items))

\* COMPUTE TOTALS: vat_groups, total_without_tax and total_tax after the
\* loop; ok = FALSE when a Decimal conversion raised.
ComputeTotals(items) ==
  Accumulate([ok |-> TRUE, vat_groups |-> <<>>,
              total_without_tax |-> Zero2, total_tax |-> Zero2], items)

\* The AccountingSupplierParty block.
SupplierParty(supplier) ==
  Node("cac:AccountingSupplierParty", <<
    Node("cac:Party",
      (IF Falsy(supplier.peppol_id) THEN <<>>
       ELSE <<E("cbc:EndpointID", <<<<"schemeID", Scheme(supplier.peppol_id)>>>>,
                supplier.peppol_id, <<>>)>>)
      \o <<
      Node("cac:PartyIdentification",
           <<E("cbc:ID", <<<<"schemeID", <<"0208">>>>>>,
               OrElse(supplier.vat_number, <<"0000000000">>), <<>>)>>),
      Node("cac:PartyName", <<Leaf("cbc:Name", supplier.company)>>),
      Node("cac:PostalAddress", <<
        Leaf("cbc:StreetName", OrElse(supplier.street, <<>>)),
        Leaf("cbc:CityName", OrElse(supplier.city, <<>>)),
        Leaf("cbc:PostalZone", OrElse(supplier.postal_code, <<>>)),
        Node("cac:Country", <<Leaf("cbc:IdentificationCode",
                                   OrElse(supplier.country_code, <<"BE">>))>>)>>),
      Node("cac:PartyTaxScheme", <<
        Leaf("cbc:CompanyID", OrElse(supplier.vat_number, <<>>)),
        Node("cac:TaxScheme", <<Leaf("cbc:ID", <<"VAT">>)>>)>>),
      Node("cac:PartyLegalEntity",
           <<Leaf("cbc:RegistrationName", supplier.company)>>)
      >>)>>)

\* The AccountingCustomerParty block.
CustomerParty(buyer) ==
  Node("cac:AccountingCustomerParty", <<
    Node("cac:Party",
      (IF Falsy(buyer.peppol_id) THEN <<>>
       ELSE <<E("cbc:EndpointID", <<<<"schemeID", Scheme(buyer.peppol_id)>>>>,
                buyer.peppol_id, <<>>)>>)
      \o <<
      Node("cac:PartyName", <<Leaf("cbc:Name", buyer.company)>>),
      Node("cac:PostalAddress", <<
        Leaf("cbc:StreetName", OrElse(buyer.street, <<>>)),
        Leaf("cbc:CityName", OrElse(buyer.city, <<>>)),
        Leaf("cbc:PostalZone", OrElse(buyer.postal_code, <<>>)),
        Node("cac:Country", <<Leaf("cbc:IdentificationCode",
                                   OrElse(buyer.country_code, <<"BE">>))>>)>>),
      Node("cac:PartyLegalEntity",
           <<Leaf("cbc:RegistrationName", buyer.company)>>)
      >>)>>)

TaxCategory(tag, vat_pct) ==
  Node(tag, <<Leaf("cbc:ID", <<"S">>),
              Leaf("cbc:Percent", fmt_amount(DecMul(vat_pct, Hundred))),
              Node("cac:TaxScheme", <<Leaf("cbc:ID", <<"VAT">>)>>)>>)

\* One TaxSubtotal per key of vat_groups, in the dict's order.
TaxSubtotal(values) ==
  Node("cac:TaxSubtotal", <<
    Amount("cbc:TaxableAmount", fmt_amount(values.taxable)),
    Amount("cbc:TaxAmount", fmt_amount(values.tax)),
    TaxCategory("cac:TaxCategory", values.key)>>)

\* The TaxTotal block.
TaxTotal(t) ==
  Node("cac:TaxTotal",
       <<Amount("cbc:TaxAmount", fmt_amount(t.total_tax))>>
       \o [i \in 1..Len(t.vat_groups) |-> TaxSubtotal(t.vat_groups[i])])

\* The LegalMonetaryTotal block.
LegalMonetaryTotal(t) ==
  Node("cac:LegalMonetaryTotal", <<
    Amount("cbc:LineExtensionAmount", fmt_amount(t.total_without_tax)),
    Amount("cbc:TaxExclusiveAmount", fmt_amount(t.total_without_tax)),
    Amount("cbc:TaxInclusiveAmount",
           fmt_amount(DecAdd(t.total_without_tax, t.total_tax))),
    Amount("cbc:PayableAmount",
           fmt_amount(DecAdd(t.total_without_tax, t.total_tax)))>>)

\* One pass of the second loop over the items: the InvoiceLine of item idx.
InvoiceLine(idx, item) ==
  LET ln        == Line(item)
      desc      == safe_str(Get(item, "description", <<>>))
      nm        == safe_str(Get(item, "name", <<>>))
      item_name == IF nm # <<>> THEN nm
                   ELSE IF desc # <<>> THEN desc
                   ELSE <<"Item ">> \o NatStr(idx)
  IN Node("cac:InvoiceLine", <<
       Leaf("cbc:ID", NatStr(idx)),
       E("cbc:InvoicedQuantity", <<<<"unitCode", <<"EA">>>>>>,
         DecStr(ln.quantity), <<>>),
       Amount("cbc:LineExtensionAmount", fmt_amount(ln.line_total)),
       Node("cac:Item",
            (IF desc # <<>> THEN <<Leaf("cbc:Description", desc)>> ELSE <<>>)
            \o <<Leaf("cbc:Name", item_name),
                 TaxCategory("cac:ClassifiedTaxCategory", VatPct(item).d)>>),
       Node("cac:Price", <<Amount("cbc:PriceAmount", fmt_amount(ln.unit_price))>>)>>)

\* The element tree generate_invoice_xml builds, in document order.
InvoiceTree(supplier, buyer, items, invoice_id, issue_date, due_date) ==
  LET due == IF due_date = None THEN AddDays(issue_date, 30) ELSE due_date
      t   == ComputeTotals(items)
  IN Node("Invoice", <<
       Leaf("cbc:CustomizationID",
            <<"urn:cen.eu:en16931:2017#compliant#urn:fdc:peppol.eu:2017:poacc:billing:3.0">>),
       Leaf("cbc:ProfileID", <<"urn:fdc:peppol.eu:2017:poacc:billing:01:1.0">>),
       Leaf("cbc:ID", invoice_id),
       Leaf("cbc:IssueDate", DateStr(issue_date)),
       Leaf("cbc:InvoiceTypeCode", <<"380">>),
       Leaf("cbc:DocumentCurrencyCode", <<"EUR">>),
       Leaf("cbc:LineCountNumeric", NatStr(Len(items))),
       Leaf("cbc:BuyerReference", buyer.company),
       SupplierParty(supplier),
       CustomerParty(buyer),
       TaxTotal(t),
       Node("cac:PaymentTerms",
            <<Leaf("cbc:Note", <<"Payment due by ">> \o DateStr(due))>>),
       LegalMonetaryTotal(t)>>
       \o [i \in 1..Len(items) |-> InvoiceLine(i, items[i])]
       \o <<Node("cac:PaymentMeans", <<
              Leaf("cbc:PaymentMeansCode", <<"31">>),
              Leaf("cbc:PaymentDueDate", DateStr(due))>>)>>)

(***************************************************************************)
(* Bytes on the wire                                                       *)
(***************************************************************************)
NoTree == Node("", <<>>)

\* b"" ; bytes that are no well-formed XML ; the bytes of a document.
EmptyBytes == [empty |-> TRUE, wf |-> FALSE, root |-> NoTree]

Malformed == [empty |-> FALSE, wf |-> FALSE, root |-> NoTree]

Document(tree) == [empty |-> FALSE, wf |-> TRUE, root |-> tree]

\* pretty_print=True: an element with children and no text of its own is
\* written with line breaks and indentation inside it, which a parser reads
\* back as that element's text.
RECURSIVE Pretty(_)
Pretty(el) ==
  [tag   |-> el.tag,
   attrs |-> el.attrs,
   text  |-> IF el.kids # <<>> /\ el.text = <<>> THEN <<"\n">> ELSE el.text,
   kids  |-> [i \in 1..Len(el.kids) |-> Pretty(el.kids[i])]]

\* etree.tostring(invoice_et, pretty_print=True, xml_declaration=True, ...)
tostring(tree) == Document(Pretty(tree))

\* A JSON string holding base64 text is held as the bytes it decodes to;
\* JSON null is [null |-> TRUE].
JsonNull == [null |-> TRUE, decoded |-> EmptyBytes]

B64(bytes) == [null |-> FALSE, decoded |-> bytes]

\* msg_detail.get("document") and "if not b64_xml": None and "" are falsy,
\* and "" is the base64 text of no bytes.
NoDocument(msg_detail) ==
  \/ "document" \notin DOMAIN msg_detail
  \/ msg_detail.document.null
  \/ msg_detail.document.decoded.empty

(***************************************************************************)
(* ElementPath: root.findall(path) and root.findtext(path), the path a     *)
(* sequence of tags, each step taken among the children.                   *)
(***************************************************************************)
RECURSIVE FindIn(_, _)
FindIn(kids, path) ==
  IF kids = <<>> THEN <<>>
  ELSE (IF Head(kids).tag # Head(path) THEN <<>>
        ELSE IF Len(path) = 1 THEN <<Head(kids)>>
        ELSE FindIn(Head(kids).kids, Tail(path)))
       \o FindIn(Tail(kids), path)

findall(el, path) == FindIn(el.kids, path)

\* The first match's text ("" for an empty element), None without a match.
findtext(el, path) ==
  IF findall(el, path) = <<>> THEN None ELSE findall(el, path)[1].text

(***************************************************************************)
(* The bookkeeping store: the rows of users, transactions and invoices     *)
(* that are committed, and whether the session is left with a failed       *)
(* flush (it then refuses every statement until a rollback, which this     *)
(* code never issues).                                                     *)
(***************************************************************************)
Raise(db, exc) == [db |-> db, result |-> [kind |-> "raise", exc |-> exc]]

Return(db, value) == [db |-> db, result |-> [kind |-> "return", value |-> value]]

\* str(value) inside an f-string
PyStr(v) == IF v = None THEN <<"N", "o", "n", "e">> ELSE v

\* A lookup that never finds a row.
FirstUserBlind(us, name) == 0

\* session.query(User).filter_by(company=name).first(): the place of the
\* first row with that company, 0 for no row.  company=None compares with
\* IS NULL, and users.company is NOT NULL.
FirstUser(us, name) ==
  IF name # None /\ \E i \in 1..Len(us) : us[i].company = name
  THEN CHOOSE i \in 1..Len(us) :
         us[i].company = name /\ \A j \in 1..(i - 1) : us[j].company # name
  ELSE 0

\* The lookup-or-create of one party: query, and for no row User(company=
\* name), add, commit.  id = 0 with exc set when a statement raised.
EnsureUser(db, name) ==
  IF db.needsRollback
  THEN [db |-> db, id |-> 0, exc |-> "PendingRollbackError"]
  ELSE IF FirstUser(db.users, name) # 0
  THEN [db |-> db, id |-> db.users[FirstUser(db.users, name)].id, exc |-> ""]
  ELSE IF name = None
  THEN [db |-> [db EXCEPT !.needsRollback = TRUE], id |-> 0,
        exc |-> "IntegrityError"]
  ELSE [db |-> [db EXCEPT !.users =
                   Append(@, [id |-> Len(@) + 1, company |-> name])],
        id |-> Len(db.users) + 1, exc |-> ""]

\* create_transaction_record: a Transaction with the columns t, add, commit.
\* name and start are NOT NULL (so are the user ids and value, which the one
\* caller always sets).
create_transaction_record(db, t) ==
  IF db.needsRollback
  THEN [db |-> db, id |-> 0, exc |-> "PendingRollbackError"]
  ELSE IF t.name = None \/ t.start = None
  THEN [db |-> [db EXCEPT !.needsRollback = TRUE], id |-> 0,
        exc |-> "IntegrityError"]
  ELSE [db |-> [db EXCEPT !.transactions =
                   Append(@, [id |-> Len(@) + 1] @@ t)],
        id |-> Len(db.transactions) + 1, exc |-> ""]

(***************************************************************************)
(* process_incoming_invoice                                                *)
(***************************************************************************)
\* total_amount = float(text) if text else 0.0
TotalAmount(root) ==
  LET text == findtext(root, <<"cac:LegalMonetaryTotal", "cbc:PayableAmount">>)
  IN IF Falsy(text) THEN [ok |-> TRUE, d |-> Zero] ELSE ParseNum(text)

\* The loop over root.findall("cac:TaxTotal/cac:TaxSubtotal"):
\* vat_total += float(vat_amount) for each subtotal with a TaxAmount text.
RECURSIVE SumVat(_, _)
SumVat(vat_total, subtotals) ==
  IF subtotals = <<>> \/ ~vat_total.ok THEN vat_total
  ELSE LET vat_amount == findtext(Head(subtotals), <<"cbc:TaxAmount">>)
           f          == ParseNum(vat_amount)
       IN SumVat(IF Falsy(vat_amount) THEN vat_total
                 ELSE [ok |-> f.ok, d |-> DecAdd(vat_total.d, f.d)],
                 Tail(subtotals))

VatTotal(root) ==
  SumVat([ok |-> TRUE, d |-> Zero],
         findall(root, <<"cac:TaxTotal", "cac:TaxSubtotal">>))

\* float - float
Minus(a, b) == DecAdd(a, [b EXCEPT !.neg = ~b.neg])

\* The steps after the document is parsed.
ImportInvoice(db, msg_id, root) ==
  LET invoice_id    == findtext(root, <<"cbc:ID">>)
      issue_date    == findtext(root, <<"cbc:IssueDate">>)
      currency      == findtext(root, <<"cbc:DocumentCurrencyCode">>)
      supplier_name == findtext(root, <<"cac:AccountingSupplierParty", "cac:Party",
                                        "cac:PartyName", "cbc:Name">>)
      buyer_name    == findtext(root, <<"cac:AccountingCustomerParty", "cac:Party",
                                        "cac:PartyName", "cbc:Name">>)
      total_amount  == TotalAmount(root)
      vat_total     == VatTotal(root)
      supplier      == EnsureUser(db, supplier_name)
      buyer         == EnsureUser(supplier.db, buyer_name)
      start_dt      == IF Falsy(issue_date) THEN <<"utcnow">> ELSE issue_date
      record        == create_transaction_record(buyer.db,
                         [name         |-> <<"Invoice ">> \o PyStr(invoice_id),
                          from_user_id |-> supplier.id,
                          to_user_id   |-> buyer.id,
                          value        |-> Minus(total_amount.d, vat_total.d),
                          vat          |-> vat_total.d,
                          vat_recovery |-> Dec(FALSE, 10, 1),
                          currency     |-> OrElse(currency, <<"EUR">>),
                          start        |-> start_dt,
                          annotation   |-> <<"Imported from Peppol message ">>
                                           \o PyStr(msg_id)])
      inv           == [id                |-> Len(record.db.invoices) + 1,
                        external_id       |-> invoice_id,
                        peppol_message_id |-> msg_id,
                        supplier_id       |-> supplier.id,
                        buyer_id          |-> buyer.id,
                        issue_date        |-> start_dt,
                        currency          |-> OrElse(currency, <<"EUR">>),
                        total_amount      |-> total_amount.d,
                        vat_amount        |-> vat_total.d,
                        transaction_id    |-> record.id]
  IN IF ~total_amount.ok THEN Raise(db, "ValueError")
     ELSE IF ~vat_total.ok THEN Raise(db, "ValueError")
     ELSE IF supplier.exc # "" THEN Raise(supplier.db, supplier.exc)
     ELSE IF buyer.exc # "" THEN Raise(buyer.db, buyer.exc)
     ELSE IF ~Falsy(issue_date) /\ ~IsIsoDate(issue_date)
     THEN Raise(buyer.db, "ValueError")
     ELSE IF record.exc # "" THEN Raise(record.db, record.exc)
     ELSE Return([record.db EXCEPT !.invoices = Append(@, inv)],
                 [message_id     |-> msg_id,
                  invoice_id     |-> invoice_id,
                  supplier       |-> supplier_name,
                  buyer          |-> buyer_name,
                  date           |-> issue_date,
                  total          |-> total_amount.d,
                  vat            |-> vat_total.d,
                  transaction_id |-> record.id,
                  invoice_db_id  |-> Len(record.db.invoices) + 1])

process_incoming_invoice(db, msg_meta, msg_detail) ==
  IF NoDocument(msg_detail)
  THEN Return(db, [id |-> msg_meta.id, error |-> <<"No document found">>])
  ELSE IF ~msg_detail.document.decoded.wf
  THEN Raise(db, "XMLSyntaxError")
  ELSE ImportInvoice(db, msg_meta.id, msg_detail.document.decoded.root)

(***************************************************************************)
(* receive_invoices: the loop over the listed messages.  An inbox entry is *)
(* [msg, status, detail]: the message of the list and the response to the  *)
(* GET of its detail.                                                      *)
(***************************************************************************)
RECURSIVE ReceiveLoop(_, _, _, _)
ReceiveLoop(db, inbox, results, requests) ==
  IF inbox = <<>> THEN [db |-> db, requests |-> requests,
                        result |-> [kind |-> "return", value |-> results]]
  ELSE LET m   == Head(inbox)
           req == Append(requests, [method |-> "GET",
                                    url |-> <<"v1/message/">> \o m.msg.id])
           r   == process_incoming_invoice(db, m.msg, m.detail)
       IN IF m.status # 200 THEN ReceiveLoop(db, Tail(inbox), results, req)
          ELSE IF r.result.kind = "raise"
          THEN [db |-> r.db, requests |-> req, result |-> r.result]
          ELSE ReceiveLoop(r.db, Tail(inbox), Append(results, r.result.value), req)

receive_invoices(db, list_status, inbox) ==
  LET req == <<[method |-> "GET", url |-> <<"v1/message/list">>]>>
  IN IF list_status = 404
     THEN [db |-> db, requests |-> req,
           result |-> [kind |-> "return", value |-> <<>>]]
     ELSE IF list_status # 200
     THEN [db |-> db, requests |-> req,
           result |-> [kind |-> "raise", exc |-> "RuntimeError"]]
     ELSE ReceiveLoop(db, inbox, <<>>, req)

(***************************************************************************)
(* send_invoice: one requests.post, and the pair it returns.               *)
(***************************************************************************)
SendWithRetry(db, xml_bytes, responses) ==
  LET req == [method |-> "POST", url |-> <<"v1/message/send">>, data |-> xml_bytes]
  IN IF responses[1].status_code >= 500
     THEN [db |-> db, requests |-> <<req, req>>,
           result |-> [kind |-> "return",
                       value |-> <<responses[2].status_code, responses[2].text>>]]
     ELSE [db |-> db, requests |-> <<req>>,
           result |-> [kind |-> "return",
                       value |-> <<responses[1].status_code, responses[1].text>>]]

\* responses: what the transport would answer to a first and to a second
\* request.
send_invoice(db, xml_bytes, responses) ==
  [db |-> db,
   requests |-> <<[method |-> "POST", url |-> <<"v1/message/send">>,
                   data |-> xml_bytes]>>,
   result |-> [kind |-> "return",
               value |-> <<responses[1].status_code, responses[1].text>>]]

(***************************************************************************)
(* Inputs                                                                  *)
(***************************************************************************)
PartyA ==
  [company |-> <<"Acme">>, peppol_id |-> <<"0088", ":", "111">>,
   vat_number |-> <<"BE0123456789">>, street |-> <<"Teststraat 1">>,
   city |-> <<"Brussel">>, postal_code |-> <<"1000">>, country_code |-> <<"BE">>]

PartyB ==
  [company |-> <<"Buyer Co">>, peppol_id |-> None, vat_number |-> None,
   street |-> None, city |-> None, postal_code |-> None, country_code |-> None]

Item(q, p, v) ==
  [name |-> <<"Test product">>, quantity |-> q, unit_price |-> p, vat_pct |-> v]

Quantities == {<<"1">>, <<"-", "1">>, <<"0", ".", "1", "2", "5">>}

Prices == {<<"0", ".", "5", "0">>, <<"0", ".", "2", "5">>, <<"1", ".", "0", "0", "5">>}

Rates == {<<"0", ".", "2", "1">>, <<"0", ".", "0", "6">>}

\* The items of the generator's own runs: every quantity and price at the
\* rates 0.21 and 0.06, the rate written 0.210 at every quantity, an item
\* that leaves vat_pct and name out, one with a rate of 0 and one with a
\* negative rate.
Items ==
  {Item(q, p, v) : q \in Quantities, p \in Prices, v \in Rates}
  \cup {Item(q, <<"0", ".", "5", "0">>, <<"0", ".", "2", "1", "0">>) : q \in Quantities}
  \cup {[description |-> <<"Peppolling test item">>, quantity |-> <<"1">>,
         unit_price |-> <<"1", "0">>],
        Item(<<"2">>, <<"-", "0", ".", "2", "5">>, <<"0">>),
        Item(<<"0", ".", "5">>, <<"0", ".", "2", "5">>, <<"-", "0", ".", "0", "5">>)}

RECURSIVE ListsUpTo(_, _)
ListsUpTo(S, n) ==
  IF n = 0 THEN {<<>>}
  ELSE LET shorter == ListsUpTo(S, n - 1)
       IN shorter \cup {Append(l, x) : l \in {k \in shorter : Len(k) = n - 1}, x \in S}

\* The item lists of the whole system's runs: the one of tests/test_send.py,
\* one with two rates, and one with a quantity that is no number.
SystemItemLists ==
  {<<Item(<<"1">>, <<"1", "0">>, <<"0", ".", "2", "1">>)>>,
   <<Item(<<"1">>, <<"0", ".", "5", "0">>, <<"0", ".", "2", "1">>),
     Item(<<"1">>, <<"0", ".", "2", "5">>, <<"0", ".", "0", "6">>)>>,
   <<Item(<<"x">>, <<"1", "0">>, <<"0", ".", "2", "1">>)>>}

IssueDate == [y |-> 2025, m |-> 1, d |-> 15]

\* The arguments of one call of generate_invoice_xml.
GenerateArgs(suppliers, lists) ==
  {[supplier |-> s, buyer |-> b, items |-> l, invoice_id |-> <<"TEST-INV-001">>,
    issue_date |-> IssueDate, due_date |-> None] :
     s \in suppliers, b \in {PartyB}, l \in lists}

\* A document of another sender: the fields the extractor reads, each there
\* or not (None), the payable amount and the TaxAmount of each TaxSubtotal
\* under one TaxTotal as texts.
Opt(tag, text) == IF text = None THEN <<>> ELSE <<Leaf(tag, text)>>

PartyBlock(tag, name) ==
  IF name = None THEN <<>>
  ELSE <<Node(tag, <<Node("cac:Party",
                          <<Node("cac:PartyName", <<Leaf("cbc:Name", name)>>)>>)>>)>>

Received(id, date, supplier, buyer, payable, taxes) ==
  Document(Node("Invoice",
    Opt("cbc:ID", id) \o Opt("cbc:IssueDate", date)
    \o PartyBlock("cac:AccountingSupplierParty", supplier)
    \o PartyBlock("cac:AccountingCustomerParty", buyer)
    \o (IF taxes = None THEN <<>>
        ELSE <<Node("cac:TaxTotal",
                    [i \in 1..Len(taxes) |->
                       Node("cac:TaxSubtotal", Opt("cbc:TaxAmount", taxes[i]))])>>)
    \o (IF payable = None THEN <<>>
        ELSE <<Node("cac:LegalMonetaryTotal",
                    <<Leaf("cbc:PayableAmount", payable)>>)>>)))

Jan1 == <<"2", "0", "2", "5", "-", "0", "1", "-", "0", "1">>

A1210 == <<"1", "2", ".", "1", "0">>

A210 == <<"2", ".", "1", "0">>

A060 == <<"0", ".", "6", "0">>

\* <Invoice></Invoice>, the document tests/test_receive_mock.py means.
EmptyInvoice == Document(Node("Invoice", <<>>))

DocPlain == Received(<<"INV-7">>, Jan1, <<"Acme">>, <<"Buyer Co">>, A1210, <<A210>>)

DocBadPayable ==
  Received(<<"INV-8">>, Jan1, <<"Acme">>, <<"Buyer Co">>, <<"a", "b", "c">>, <<A210>>)

DocBadTax ==
  Received(<<"INV-9">>, Jan1, <<"Acme">>, <<"Buyer Co">>, A1210, <<A210, <<"x">>, A060>>)

DocNoTax ==
  Received(<<"INV-10">>, Jan1, <<"Acme">>, <<"Buyer Co">>, A1210, <<A210, None, A060>>)

DocBadDate ==
  Received(<<"INV-11">>, <<"0", "1", "/", "0", "2", "/", "2", "0", "2", "5">>,
           <<"Acme">>, <<"Other">>, A1210, <<A210>>)

DocNoBuyer == Received(<<"INV-12">>, Jan1, <<"Solo">>, None, A1210, None)

DocSameParty == Received(None, None, <<"Solo">>, <<"Solo">>, None, None)

\* A document with one more child under its root.
WithChild(bytes, kid) ==
  Document(E(bytes.root.tag, bytes.root.attrs, bytes.root.text,
             Append(bytes.root.kids, kid)))

SubtotalOf(amount) ==
  Node("cac:TaxTotal", <<Node("cac:TaxSubtotal", <<Leaf("cbc:TaxAmount", amount)>>)>>)

\* A TaxTotal of 0.60 inside an InvoiceLine, beside the top-level one.
DocLineTax ==
  WithChild(Received(<<"INV-13">>, Jan1, <<"Acme">>, <<"Buyer Co">>, A1210, <<A210>>),
            Node("cac:InvoiceLine", <<Leaf("cbc:ID", <<"1">>), SubtotalOf(A060)>>))

\* A second top-level TaxTotal of 0.60.
DocTwoTaxTotals ==
  WithChild(Received(<<"INV-14">>, Jan1, <<"Acme">>, <<"Buyer Co">>, A1210, <<A210>>),
            SubtotalOf(A060))

ReceivedBytes ==
  {EmptyBytes, Malformed, EmptyInvoice, DocPlain, DocBadPayable, DocBadTax,
   DocNoTax, DocBadDate, DocNoBuyer, DocSameParty, DocLineTax, DocTwoTaxTotals}

\* The detail of a message: with a document, with "document": null, or
\* with no "document" key.
Details(bytes) ==
  {[document |-> B64(b)] : b \in bytes}
  \cup {[document |-> JsonNull], [sender |-> <<"0088:111">>]}

MsgIds == <<<<"123">>, <<"456">>, <<"789">>, <<"1011">>>>

Msg(id) == [id |-> id, sender |-> <<"0088:111">>]

\* The inboxes of one run of receive_invoices: up to MaxMsgs messages, the
\* i-th with the i-th id, each with the status and body of its detail.
InboxEntries(i) ==
  {[msg |-> Msg(MsgIds[i]), status |-> 200, detail |-> d] :
     d \in Details({DocPlain, Malformed, DocBadPayable})}
  \cup {[msg |-> Msg(MsgIds[i]), status |-> 404, detail |-> [sender |-> <<"0088:111">>]]}

RECURSIVE InboxesOfLen(_)
InboxesOfLen(n) ==
  IF n = 0 THEN {<<>>}
  ELSE {Append(l, x) : l \in InboxesOfLen(n - 1), x \in InboxEntries(n)}

Inboxes == UNION {InboxesOfLen(n) : n \in 0..MaxMsgs}

Responses ==
  {[status_code |-> 200, text |-> <<"{\"messageId\": \"ABC123\"}">>],
   [status_code |-> 422, text |-> <<"invalid document">>],
   [status_code |-> 503, text |-> <<"unavailable">>]}

(***************************************************************************)
(* The state machine.  call is the caller's place: idle, a call of one of  *)
(* the four methods with its arguments bound, or that call returned (or    *)
(* raised) with its result and the HTTP requests it made.  generated is    *)
(* the last document the caller got from generate_invoice_xml.             *)
(***************************************************************************)
Store == [users |-> users, transactions |-> transactions,
          invoices |-> invoices, needsRollback |-> needsRollback]

SetStore(db) ==
  /\ users' = db.users
  /\ transactions' = db.transactions
  /\ invoices' = db.invoices
  /\ needsRollback' = db.needsRollback

NotGenerated == [made |-> FALSE]

Idle == [phase |-> "idle"]

Called(op, args) == [phase |-> "called", op |-> op, args |-> args]

Running(op) == call.phase = "called" /\ call.op = op

Finish(r) ==
  call' = [phase |-> "done", op |-> call.op, args |-> call.args,
           requests |-> r.requests, result |-> r.result]

\* PeppolBookkeeping(...): create_all on an empty database, a new session.
Init ==
  /\ users = <<>>
  /\ transactions = <<>>
  /\ invoices = <<>>
  /\ needsRollback = FALSE
  /\ generated = NotGenerated
  /\ call = Idle

\* What a caller may hold as the bytes of a generated document.
GeneratedBytes == IF generated.made THEN {generated.xml_bytes} ELSE {}

\* The calls a caller may make next.
Calls ==
  {Called("generate_invoice_xml", a) : a \in GenerateArgs({PartyA}, SystemItemLists)}
  \cup {Called("send_invoice", [xml_bytes |-> b, responses |-> <<r, r2>>]) :
          b \in GeneratedBytes \cup {EmptyInvoice}, r \in Responses,
          r2 \in {x \in Responses : x.status_code = 200}}
  \cup {Called("process_incoming_invoice",
               [msg_meta |-> Msg(MsgIds[1]), msg_detail |-> d]) :
          d \in {x \in Details(ReceivedBytes \cup GeneratedBytes) :
                   Len(invoices) < MaxInvoices}}
  \cup {Called("receive_invoices", [list_status |-> 200, inbox |-> l]) :
          l \in {x \in Inboxes : Len(invoices) + Len(x) <= MaxInvoices}}
  \cup {Called("receive_invoices", [list_status |-> st, inbox |-> <<>>]) :
          st \in {404, 500}}

Invoke ==
  /\ call.phase = "idle"
  /\ call' \in Calls
  /\ UNCHANGED <<users, transactions, invoices, needsRollback, generated>>

GenerateInvoiceXml ==
  LET a == call.args
      xml_bytes == tostring(InvoiceTree(a.supplier, a.buyer, a.items, a.invoice_id,
                                        a.issue_date, a.due_date))
  IN /\ Running("generate_invoice_xml")
     /\ IF ComputeTotals(a.items).ok
        THEN /\ generated' = [made |-> TRUE, args |-> a, xml_bytes |-> xml_bytes]
             /\ Finish([requests |-> <<>>,
                        result |-> [kind |-> "return", value |-> xml_bytes]])
        ELSE /\ generated' = generated
             /\ Finish([requests |-> <<>>,
                        result |-> [kind |-> "raise", exc |-> "InvalidOperation"]])
     /\ UNCHANGED <<users, transactions, invoices, needsRollback>>

SendInvoice ==
  LET r == send_invoice(Store, call.args.xml_bytes, call.args.responses)
  IN /\ Running("send_invoice")
     /\ SetStore(r.db)
     /\ Finish(r)
     /\ UNCHANGED generated

ProcessIncomingInvoice ==
  LET r == process_incoming_invoice(Store, call.args.msg_meta, call.args.msg_detail)
  IN /\ Running("process_incoming_invoice")
     /\ SetStore(r.db)
     /\ Finish([requests |-> <<>>, result |-> r.result])
     /\ UNCHANGED generated

ReceiveInvoices ==
  LET r == receive_invoices(Store, call.args.list_status, call.args.inbox)
  IN /\ Running("receive_invoices")
     /\ SetStore(r.db)
     /\ Finish(r)
     /\ UNCHANGED generated

\* The caller has the result and goes on.
Done ==
  /\ call.phase = "done"
  /\ call' = Idle
  /\ UNCHANGED <<users, transactions, invoices, needsRollback, generated>>

Next ==
  \/ Invoke
  \/ GenerateInvoiceXml
  \/ SendInvoice
  \/ ProcessIncomingInvoice
  \/ ReceiveInvoices
  \/ Done

Spec == Init /\ [][Next]_vars

\* The generator alone, called once with any list of up to MaxItems of the
\* Items.
InitGen ==
  /\ users = <<>>
  /\ transactions = <<>>
  /\ invoices = <<>>
  /\ needsRollback = FALSE
  /\ generated = NotGenerated
  /\ call \in {Called("generate_invoice_xml", a) :
                 a \in GenerateArgs({PartyA}, ListsUpTo(Items, MaxItems))}

SpecGen == InitGen /\ [][GenerateInvoiceXml]_vars

(***************************************************************************)
(* What the claims are stated with: the document a finished call of        *)
(* generate_invoice_xml returned, read back with findtext, and rounding    *)
(* to the cent written out in integer arithmetic.                          *)
(***************************************************************************)
Finished(op) == call.phase = "done" /\ call.op = op

Returned(op) == Finished(op) /\ call.result.kind = "return"

GenRoot == call.result.value.root

GenItems == call.args.items

\* The number a text denotes, in cents; the text must be a number with
\* exactly two fractional digits for IsAmount.
IsAmount(text) == ParseNum(text).ok /\ ParseNum(text).d.e = 2

Cents(text) == Signed(ParseNum(text).d)

\* n * 10^-e to the nearest cent, a half going away from zero.
RefCents(n, e) ==
  IF e <= 2 THEN n * Pow10(2 - e)
  ELSE LET u == Pow10(e - 2)
           k == (2 * Abs(n) + u) \div (2 * u)
       IN IF n < 0 THEN 0 - k ELSE k

\* round2(quantity * round2(unit_price)) of an item, in cents.
RefLineCents(item) ==
  LET q == ParseNum(Get(item, "quantity", <<"0">>)).d
      p == ParseNum(Get(item, "unit_price", <<"0">>)).d
  IN RefCents(Signed(q) * RefCents(Signed(p), p.e), q.e + 2)

\* The effective rate of an item in millionths: vat_pct, a negative one 0.
RefRate(item) ==
  LET v == ParseNum(Get(item, "vat_pct", <<"0">>)).d
  IN IF Signed(v) < 0 THEN 0 ELSE AtScale(v, 6)

RECURSIVE SumOver(_, _)
SumOver(S, f) ==
  IF S = {} THEN 0
  ELSE LET x == CHOOSE y \in S : TRUE IN f[x] + SumOver(S \ {x}, f)

\* The sum of the line totals of the items with rate r, in cents.
RefTaxable(items, r) ==
  SumOver({i \in 1..Len(items) : RefRate(items[i]) = r},
          [i \in 1..Len(items) |-> RefLineCents(items[i])])

GenSubtotals == findall(GenRoot, <<"cac:TaxTotal", "cac:TaxSubtotal">>)

GenLines == findall(GenRoot, <<"cac:InvoiceLine">>)

Monetary(tag) == findtext(GenRoot, <<"cac:LegalMonetaryTotal", tag>>)

(***************************************************************************)
(* C1.  In every generated document PayableAmount and TaxInclusiveAmount   *)
(* are the same text, and as amounts both are LineExtensionAmount plus the *)
(* top-level TaxTotal/TaxAmount.                                           *)
(***************************************************************************)
C1_TotalsIdentity ==
  Returned("generate_invoice_xml") =>
    /\ Monetary("cbc:PayableAmount") = Monetary("cbc:TaxInclusiveAmount")
    /\ IsAmount(Monetary("cbc:PayableAmount"))
    /\ Cents(Monetary("cbc:PayableAmount"))
         = Cents(Monetary("cbc:LineExtensionAmount"))
           + Cents(findtext(GenRoot, <<"cac:TaxTotal", "cbc:TaxAmount">>))

(***************************************************************************)
(* C2.  In every generated document the TaxAmount texts of the TaxSubtotal *)
(* elements add up to the top-level TaxTotal/TaxAmount, to the cent.       *)
(***************************************************************************)
C2_SubtotalsSumToTaxTotal ==
  Returned("generate_invoice_xml") =>
    SumOver(1..Len(GenSubtotals),
            [j \in 1..Len(GenSubtotals) |->
               Cents(findtext(GenSubtotals[j], <<"cbc:TaxAmount">>))])
      = Cents(findtext(GenRoot, <<"cac:TaxTotal", "cbc:TaxAmount">>))

(***************************************************************************)
(* C3.  A generated document has exactly one TaxSubtotal per distinct      *)
(* effective VAT rate of its items (rates compared as numbers, a negative  *)
(* rate counted as 0), none for no items, and the TaxableAmount of the     *)
(* subtotal of a rate is the sum of the line totals of the items with      *)
(* that rate.                                                              *)
(***************************************************************************)
C3_OneSubtotalPerRate ==
  Returned("generate_invoice_xml") =>
    LET rates == {RefRate(GenItems[i]) : i \in 1..Len(GenItems)}
        of(r) == {j \in 1..Len(GenSubtotals) :
                    AtScale(ParseNum(findtext(GenSubtotals[j],
                              <<"cac:TaxCategory", "cbc:Percent">>)).d, 4) = r}
    IN /\ Len(GenSubtotals) = Cardinality(rates)
       /\ \A r \in rates :
            /\ Cardinality(of(r)) = 1
            /\ \A j \in of(r) :
                 LET text == findtext(GenSubtotals[j], <<"cbc:TaxableAmount">>)
                 IN IsAmount(text) /\ Cents(text) = RefTaxable(GenItems, r)

\* Two items whose rates are written 0.21 and 0.210, in one subtotal.
C3_Witness ==
  /\ Returned("generate_invoice_xml")
  /\ Len(GenItems) = 2
  /\ Get(GenItems[1], "vat_pct", <<"0">>) = <<"0", ".", "2", "1">>
  /\ Get(GenItems[2], "vat_pct", <<"0">>) = <<"0", ".", "2", "1", "0">>
  /\ Len(GenSubtotals) = 1

(***************************************************************************)
(* C4.  Round trip: importing the bytes generate_invoice_xml returned      *)
(* gives a summary whose total is round2(total_without_tax + total_tax),   *)
(* whose vat is round2(total_tax), to the cent, and whose supplier and     *)
(* buyer are the companies of the two parties.                             *)
(***************************************************************************)
C4_RoundTrip ==
  ( /\ Finished("process_incoming_invoice")
    /\ ~needsRollback
    /\ generated.made
    /\ call.args.msg_detail = [document |-> B64(generated.xml_bytes)] ) =>
    LET t == ComputeTotals(generated.args.items)
        v == call.result.value
    IN /\ call.result.kind = "return"
       /\ DecEq(Quantize(v.total), Quantize(DecAdd(t.total_without_tax, t.total_tax)))
       /\ DecEq(Quantize(v.vat), Quantize(t.total_tax))
       /\ v.supplier = generated.args.supplier.company
       /\ v.buyer = generated.args.buyer.company

(***************************************************************************)
(* C5.  Missing-field tolerance: on a session in working order, a document *)
(* that is only an empty Invoice element is imported without an error, and *)
(* the summary has empty texts and a total and vat of zero.                *)
(***************************************************************************)
C5_EmptyInvoiceTolerated ==
  [][ ( /\ Running("process_incoming_invoice")
        /\ ~needsRollback
        /\ call.args.msg_detail = [document |-> B64(EmptyInvoice)] ) =>
      ( /\ call'.result.kind = "return"
        /\ Falsy(call'.result.value.invoice_id)
        /\ Falsy(call'.result.value.supplier)
        /\ Falsy(call'.result.value.buyer)
        /\ Falsy(call'.result.value.date)
        /\ DecEq(call'.result.value.total, Zero)
        /\ DecEq(call'.result.value.vat, Zero) ) ]_vars

\* What the claim says the extractor reads of amounts: a text that is no
\* number counts 0.
RefAmount(text) ==
  IF Falsy(text) \/ ~ParseNum(text).ok THEN Zero ELSE ParseNum(text).d

RECURSIVE RefVatSum(_)
RefVatSum(subtotals) ==
  IF subtotals = <<>> THEN Zero
  ELSE DecAdd(RefAmount(findtext(Head(subtotals), <<"cbc:TaxAmount">>)),
              RefVatSum(Tail(subtotals)))

\* A document with both party names and a date that is absent or ISO: one
\* whose import can only fail on its amounts.
NamedAndDated(root) ==
  /\ findtext(root, <<"cac:AccountingSupplierParty", "cac:Party",
                      "cac:PartyName", "cbc:Name">>) # None
  /\ findtext(root, <<"cac:AccountingCustomerParty", "cac:Party",
                      "cac:PartyName", "cbc:Name">>) # None
  /\ \/ Falsy(findtext(root, <<"cbc:IssueDate">>))
     \/ IsIsoDate(findtext(root, <<"cbc:IssueDate">>))

(***************************************************************************)
(* C6.  For a well-formed document, a PayableAmount that is no number      *)
(* makes the total 0.0, a TaxSubtotal/TaxAmount that is no number or is    *)
(* absent adds 0 to the vat while the others are summed, and the import    *)
(* raises in neither case.                                                 *)
(***************************************************************************)
C6_NonNumericAmountsCountZero ==
  [][ ( /\ Running("process_incoming_invoice")
        /\ ~needsRollback
        /\ ~NoDocument(call.args.msg_detail)
        /\ call.args.msg_detail.document.decoded.wf
        /\ NamedAndDated(call.args.msg_detail.document.decoded.root) ) =>
      LET root == call.args.msg_detail.document.decoded.root
      IN /\ call'.result.kind = "return"
         /\ DecEq(call'.result.value.total,
                  RefAmount(findtext(root, <<"cac:LegalMonetaryTotal",
                                             "cbc:PayableAmount">>)))
         /\ DecEq(call'.result.value.vat,
                  RefVatSum(findall(root, <<"cac:TaxTotal", "cac:TaxSubtotal">>))) ]_vars

\* The inbox entries whose extraction fails, and those whose extraction
\* succeeds, on a session in working order.
Fails(m) ==
  /\ m.status = 200
  /\ m.detail \in {[document |-> B64(Malformed)], [document |-> B64(DocBadPayable)]}

Extractable(m) == m.status = 200 /\ m.detail = [document |-> B64(DocPlain)]

(***************************************************************************)
(* C7.  Batch isolation: when the extraction of one listed message fails,  *)
(* receive_invoices still processes every other message and returns its    *)
(* result, and the caller is told of the failure (an exception, or a       *)
(* result that carries an error for the failed message).                   *)
(***************************************************************************)
C7_BatchIsolation ==
  [][ ( /\ Running("receive_invoices")
        /\ ~needsRollback
        /\ call.args.list_status = 200
        /\ \E k \in 1..Len(call.args.inbox) : Fails(call.args.inbox[k]) ) =>
      ( /\ \A i \in 1..Len(call.args.inbox) :
             Extractable(call.args.inbox[i]) =>
               /\ call'.result.kind = "return"
               /\ \E j \in 1..Len(call'.result.value) :
                    /\ "message_id" \in DOMAIN call'.result.value[j]
                    /\ call'.result.value[j].message_id = call.args.inbox[i].msg.id
        /\ \/ call'.result.kind = "raise"
           \/ \A k \in 1..Len(call.args.inbox) :
                Fails(call.args.inbox[k]) =>
                  \E j \in 1..Len(call'.result.value) :
                    /\ "error" \in DOMAIN call'.result.value[j]
                    /\ call'.result.value[j].id = call.args.inbox[k].msg.id ) ]_vars

\* The listed messages whose detail came with status 200, in list order.
Fetched(inbox) == SelectSeq(inbox, LAMBDA m : m.status = 200)

(***************************************************************************)
(* C8.  When the list call returns 200 and receive_invoices returns, it    *)
(* returns one result per listed message whose detail came with 200, in    *)
(* list order, each with the id of its message under "message_id", also    *)
(* for a message without a document.                                       *)
(***************************************************************************)
C8_OneResultPerMessage ==
  [][ ( /\ Running("receive_invoices")
        /\ call.args.list_status = 200
        /\ call'.result.kind = "return" ) =>
      ( /\ Len(call'.result.value) = Len(Fetched(call.args.inbox))
        /\ \A j \in 1..Len(call'.result.value) :
             /\ "message_id" \in DOMAIN call'.result.value[j]
             /\ call'.result.value[j].message_id
                  = Fetched(call.args.inbox)[j].msg.id ) ]_vars

(***************************************************************************)
(* C9.  send_invoice makes exactly one POST, of the bytes it was given,    *)
(* returns the status code and body of that one response whatever the      *)
(* status, and leaves the store as it was.                                 *)
(***************************************************************************)
C9_SendOnce ==
  [][ Running("send_invoice") =>
      ( /\ call'.requests = <<[method |-> "POST", url |-> <<"v1/message/send">>,
                               data |-> call.args.xml_bytes]>>
        /\ call'.result = [kind |-> "return",
                           value |-> <<call.args.responses[1].status_code,
                                       call.args.responses[1].text>>]
        /\ UNCHANGED <<users, transactions, invoices, needsRollback>> ) ]_vars

\* A 503 returned to the caller after one POST, with invoices in the store.
C9_Witness ==
  /\ Finished("send_invoice")
  /\ call.result.kind = "return"
  /\ call.result.value[1] = 503
  /\ Len(call.requests) = 1
  /\ Len(invoices) > 0

NegativeRated(items) ==
  {i \in 1..Len(items) :
     Signed(ParseNum(Get(items[i], "vat_pct", <<"0">>)).d) < 0}

RatedZero(items) ==
  [i \in 1..Len(items) |->
     IF i \in NegativeRated(items)
     THEN [k \in DOMAIN items[i] |-> IF k = "vat_pct" THEN <<"0">> ELSE items[i][k]]
     ELSE items[i]]

\* Every Percent text of the document: of the subtotals and of the lines.
GenPercents ==
  {findtext(GenSubtotals[j], <<"cac:TaxCategory", "cbc:Percent">>) :
     j \in 1..Len(GenSubtotals)}
  \cup {findtext(GenLines[i], <<"cac:Item", "cac:ClassifiedTaxCategory", "cbc:Percent">>) :
          i \in 1..Len(GenLines)}

(***************************************************************************)
(* C11.  An item with a negative vat_pct is treated as the same item with  *)
(* vat_pct 0: the totals and groups are those of the items with the rate   *)
(* written 0, it is in the one group of rate 0 with the items whose rate   *)
(* is 0, that group's tax is 0.00, the top-level TaxAmount is the tax of   *)
(* the other items alone, the Percent of its line is "0.00", and no        *)
(* Percent of the document is below zero.                                  *)
(***************************************************************************)
C11_NegativeRateIsZero ==
  Returned("generate_invoice_xml") =>
    LET neg  == NegativeRated(GenItems)
        zero == {j \in 1..Len(GenSubtotals) :
                   Cents(findtext(GenSubtotals[j],
                                  <<"cac:TaxCategory", "cbc:Percent">>)) = 0}
        tax  == SumOver(1..Len(GenItems),
                        [i \in 1..Len(GenItems) |->
                           RefLineCents(GenItems[i]) * RefRate(GenItems[i])])
    IN /\ ComputeTotals(GenItems) = ComputeTotals(RatedZero(GenItems))
       /\ \A i \in neg :
            findtext(GenLines[i], <<"cac:Item", "cac:ClassifiedTaxCategory",
                                    "cbc:Percent">>) = <<"0", ".", "0", "0">>
       /\ neg # {} =>
            /\ Cardinality(zero) = 1
            /\ \A j \in zero :
                 /\ findtext(GenSubtotals[j], <<"cac:TaxCategory", "cbc:Percent">>)
                      = <<"0", ".", "0", "0">>
                 /\ Cents(findtext(GenSubtotals[j], <<"cbc:TaxableAmount">>))
                      = RefTaxable(GenItems, 0)
                 /\ findtext(GenSubtotals[j], <<"cbc:TaxAmount">>)
                      = <<"0", ".", "0", "0">>
       /\ Cents(findtext(GenRoot, <<"cac:TaxTotal", "cbc:TaxAmount">>))
            = RefCents(tax, 8)
       /\ \A text \in GenPercents : IsAmount(text) /\ Cents(text) >= 0

\* An item with rate -0.05 after an item with rate 0, in one subtotal.
C11_Witness ==
  /\ Returned("generate_invoice_xml")
  /\ Len(GenItems) = 2
  /\ Get(GenItems[1], "vat_pct", <<"0">>) = <<"0">>
  /\ Get(GenItems[2], "vat_pct", <<"0">>) = <<"-", "0", ".", "0", "5">>
  /\ Len(GenSubtotals) = 1
  /\ findtext(GenLines[2], <<"cac:Item", "cac:ClassifiedTaxCategory", "cbc:Percent">>)
       = <<"0", ".", "0", "0">>

\* Every TaxSubtotal element below el, at any depth, in document order.
RECURSIVE Descendants(_, _)
Descendants(kids, tag) ==
  IF kids = <<>> THEN <<>>
  ELSE (IF Head(kids).tag = tag THEN <<Head(kids)>> ELSE <<>>)
       \o Descendants(Head(kids).kids, tag)
       \o Descendants(Tail(kids), tag)

(***************************************************************************)
(* C12.  The vat of the summary of an imported document is the sum of the  *)
(* TaxAmount of every TaxSubtotal element of the document, at any depth:   *)
(* also of one in a TaxTotal inside an InvoiceLine, or in a second         *)
(* top-level TaxTotal.                                                     *)
(***************************************************************************)
C12_VatFromEverySubtotal ==
  ( /\ Returned("process_incoming_invoice")
    /\ ~NoDocument(call.args.msg_detail) ) =>
    DecEq(call.result.value.vat,
          RefVatSum(Descendants(call.args.msg_detail.document.decoded.root.kids,
                                "cac:TaxSubtotal")))

\* At most one User per company name; the Users with a given name.
Named(us, name) == {i \in 1..Len(us) : us[i].company = name}

UniqueNames(us) == \A i, j \in 1..Len(us) : us[i].company = us[j].company => i = j

(***************************************************************************)
(* C13.  Lookup-or-create keeps company names unique: no step takes a      *)
(* store with at most one User per name to one with two of a name, and an  *)
(* import that returns a summary leaves every User it found as it was,     *)
(* adds exactly one User for each of the supplier and buyer names that was *)
(* absent (one, not two, when the two names are equal) and none for a name *)
(* that was there.                                                         *)
(***************************************************************************)
C13_UniquePartyNames ==
  [][ /\ UniqueNames(users) => UniqueNames(users')
      /\ ( /\ Running("process_incoming_invoice")
           /\ UniqueNames(users)
           /\ ~NoDocument(call.args.msg_detail)
           /\ call'.result.kind = "return" ) =>
         LET root   == call.args.msg_detail.document.decoded.root
             names  == {findtext(root, <<"cac:AccountingSupplierParty", "cac:Party",
                                         "cac:PartyName", "cbc:Name">>),
                        findtext(root, <<"cac:AccountingCustomerParty", "cac:Party",
                                         "cac:PartyName", "cbc:Name">>)}
             absent == {n \in names : Named(users, n) = {}}
         IN /\ Len(users') = Len(users) + Cardinality(absent)
            /\ \A i \in 1..Len(users) : users'[i] = users[i]
            /\ \A n \in names : Cardinality(Named(users', n)) = 1 ]_vars

\* A second import of the same two parties: two invoices, two Users.
C13_Witness ==
  /\ Returned("process_incoming_invoice")
  /\ call.args.msg_detail = [document |-> B64(DocPlain)]
  /\ Len(invoices) = 2
  /\ Len(users) = 2

(***************************************************************************)
(* C14.  A failure leaves the store unchanged: when                        *)
(* process_incoming_invoice raises, whatever the cause, the committed      *)
(* Users, Transactions and Invoices are those of before the call.          *)
(***************************************************************************)
C14_FailureLeavesStore ==
  [][ ( /\ Running("process_incoming_invoice")
        /\ call'.result.kind = "raise" ) =>
      UNCHANGED <<users, transactions, invoices>> ]_vars

=============================================================================
